---- MODULE Spec2Model ----
(***************************************************************************)
(* Stripe webhook idempotency engine of ai-sheets-saas:                    *)
(*   app/services/stripe_events.py  StripeEventProcessor.process_event     *)
(*   app/services/credits.py        add_credits                            *)
(*   app/models.py                  User, CreditTransaction, StripeEventLog*)
(*                                                                         *)
(* Storage model.  Every invocation owns one SQLAlchemy Session (db.py,    *)
(* get_db).  A Session has one transaction at a time: flush() sends the    *)
(* pending INSERT/UPDATE statements without committing, commit() flushes   *)
(* and makes everything the session wrote durable, rollback() discards     *)
(* everything not yet committed (a flushed INSERT included) and expires    *)
(* the loaded objects.  "with self.db.begin():" is taken as the            *)
(* transaction scope its comment describes: it commits the session's       *)
(* transaction at the end of the block.  The database is PostgreSQL        *)
(* (READ COMMITTED): an INSERT of a key another open transaction has       *)
(* inserted waits for that transaction to end.  The ORM writes an UPDATE   *)
(* with the absolute values of the attributes that were modified.          *)
(*                                                                         *)
(* process_event guards next_retry_at and dead_letter with hasattr: the    *)
(* class of models.py does not map them, the table of migration 002 has    *)
(* them.  hasRetryColumns is fixed at Init to either build.                *)
(***************************************************************************)
EXTENDS Integers, Sequences, FiniteSets, TLC

\* ---------------------------------------------------------------- bounds
NumWorkers == 2
MaxDeliveries == 2
MaxTopUpDeliveries == 3
MaxSeqDeliveries == 7
MaxAnyDeliveries == 2

Workers == 1..NumWorkers

\* ------------------------------------------------------------- constants
NULL == "null"
NoTime == -1

CHECKOUT == "checkout.session.completed"
PAYMENT_OK == "payment_intent.succeeded"
PAYMENT_FAILED == "payment_intent.payment_failed"
INVOICE_PAID == "invoice.payment_succeeded"

RetryCeiling == 5
BackoffBase == 60
BackoffCap == 3600

Users == {"U1"}

\* event_data as process_event reads it: id, type, whether data.object is
\* present, and of data.object client_reference_id / metadata user_id (NULL
\* when neither is given), int(metadata.credits) (0 when absent) and its
\* own id (the checkout session id, NULL when absent).
Event(id, type, has_object, user_id, credits, session) ==
  [id |-> id, type |-> type, has_object |-> has_object,
   user_id |-> user_id, credits |-> credits, session |-> session]

\* Events the transport hands to process_event (already parsed).
Events ==
  { Event("evt_1", CHECKOUT, TRUE, "U1", 100, "cs_1"),
    Event("evt_2", CHECKOUT, TRUE, "U_gone", 100, "cs_2"),
    Event("evt_3", PAYMENT_OK, TRUE, NULL, 0, NULL) }

\* Further inputs: an unregistered type, a payload without data.object,
\* checkout sessions without credits, without user and with a negative
\* amount, events without id or type (absent/None is NULL, empty is ""),
\* a second event for the checkout session of evt_1, a failed payment whose
\* object carries a user and an amount, and a delivery that reuses the id
\* evt_1 with another type and payload.
ExtraEvents ==
  { Event("evt_4", "customer.created", TRUE, NULL, 0, NULL),
    Event("evt_5", CHECKOUT, FALSE, NULL, 0, NULL),
    Event("evt_6", CHECKOUT, TRUE, "U1", 0, "cs_6"),
    Event("evt_7", CHECKOUT, TRUE, NULL, 100, "cs_7"),
    Event("evt_8", CHECKOUT, TRUE, "U1", -50, "cs_8"),
    Event(NULL, CHECKOUT, TRUE, "U1", 100, "cs_9"),
    Event("", CHECKOUT, TRUE, "U1", 100, "cs_9"),
    Event("evt_9", NULL, TRUE, "U1", 100, "cs_9"),
    Event("evt_9", "", TRUE, "U1", 100, "cs_9"),
    Event("evt_10", CHECKOUT, TRUE, "U1", 100, "cs_1"),
    Event("evt_11", PAYMENT_FAILED, TRUE, "U1", 100, "pi_11"),
    Event("evt_1", PAYMENT_OK, TRUE, NULL, 0, "pi_1") }

AllEvents == Events \cup ExtraEvents

\* Two purchases of the same user: different event ids, different checkout
\* sessions.
TopUpEvents ==
  { Event("evt_1", CHECKOUT, TRUE, "U1", 100, "cs_1"),
    Event("evt_12", CHECKOUT, TRUE, "U1", 250, "cs_12") }

\* The ids the status endpoint is asked for: one that gets a row and one
\* whose deliveries always fail.
StatusIds == {"evt_1", "evt_2"}

EventIds == {ev.id : ev \in AllEvents \cup TopUpEvents} \ {NULL, ""}

NoEvent == Event(NULL, NULL, FALSE, NULL, 0, NULL)

LedgerError == "ledger error"
UserNotFound == "User not found"
MissingFields == "Missing user_id or credits in checkout session"
NoneTypeError == "'NoneType' object has no attribute 'get'"

\* ----------------------------------------------------------------- state
VARIABLES
  log,            \* stripe_event_log, committed rows: [EventIds -> Seq(row)]
  balance,        \* users.credits, committed
  txSum,          \* sum of the committed CreditTransaction.amount per user
  sess,           \* one Session / process_event invocation per worker
  hasRetryColumns,\* the mapped class has next_retry_at and dead_letter
  deliveries,     \* number of deliveries made so far
  grants,         \* history: committed credit grants made for each event id
  handlerCalls,   \* history: handler invocations for each event id
  attemptsMade,   \* history: executions of line 63 for each event id
  created,        \* history: successful INSERTs (flush) for each event id
  aborts,         \* history: invocations cut short so far
  status          \* the response of the last status lookup

vars == <<log, balance, txSum, sess, hasRetryColumns, deliveries,
          grants, handlerCalls, attemptsMade, created, aborts,
          status>>

\* created_at has server_default now(); the model's clock stands at 0.
CreatedNow == 0

\* StripeEventLog(stripe_event_id, event_type, event_data, processed=False)
\* after the INSERT: the column defaults are filled in.
NewRow(ev) ==
  [ event_type |-> ev.type, event_data |-> ev, created_at |-> CreatedNow,
    processed |-> FALSE, attempts |-> 0,
    error_message |-> NULL, processed_at |-> NoTime,
    next_retry_at |-> NoTime, dead_letter |-> FALSE ]

NoRow == NewRow(NoEvent)

\* An invocation's session.  base and first are history fields: base is the
\* attempt_count the invocation read from an existing row (lines 48-50),
\* first says that no earlier or running delivery of the id had reached the
\* store when the invocation started.
IdleSession ==
  [ pc |-> "idle", ev |-> NoEvent, obj |-> "none", idx |-> 0,
    img |-> NoRow, dirty |-> {}, expired |-> FALSE, user |-> 0,
    base |-> 0, first |-> FALSE,
    err |-> NULL, deadAttempt |-> FALSE,
    ok |-> FALSE, msg |-> NULL, http |-> 0,
    startedProcessed |-> FALSE, handled |-> FALSE, wrote |-> FALSE ]

\* routers/stripe.py lines 76-77: HTTPException(status_code=404).
NotFound(e) ==
  [ code |-> 404, event_id |-> e, event_type |-> NULL, processed |-> FALSE,
    processing_attempts |-> 0, error_message |-> NULL,
    processed_at |-> NoTime, created_at |-> NoTime, next_retry_at |-> NoTime ]

\* Mutant of lines 79-88: the error text is left out of the response.
StatusBody_Mut(e, row) ==
  [ code |-> 200, event_id |-> e, event_type |-> row.event_type,
    processed |-> row.processed, processing_attempts |-> row.attempts,
    error_message |-> NULL, processed_at |-> row.processed_at,
    created_at |-> row.created_at,
    next_retry_at |-> IF hasRetryColumns THEN row.next_retry_at ELSE NoTime ]

\* routers/stripe.py lines 79-88: the response body; next_retry_at is read
\* only when the mapped class has the attribute.
StatusBody(e, row) ==
  [ code |-> 200, event_id |-> e, event_type |-> row.event_type,
    processed |-> row.processed, processing_attempts |-> row.attempts,
    error_message |-> row.error_message, processed_at |-> row.processed_at,
    created_at |-> row.created_at,
    next_retry_at |-> IF hasRetryColumns THEN row.next_retry_at ELSE NoTime ]

\* No lookup made yet.
NoStatus == NotFound(NULL)

Init ==
  /\ status = NoStatus
  /\ log = [e \in EventIds |-> << >>]
  /\ balance = [u \in Users |-> 0]
  /\ txSum = [u \in Users |-> 0]
  /\ sess = [w \in Workers |-> IdleSession]
  /\ hasRetryColumns \in BOOLEAN
  /\ deliveries = 0
  /\ grants = [e \in EventIds |-> 0]
  /\ handlerCalls = [e \in EventIds |-> 0]
  /\ attemptsMade = [e \in EventIds |-> 0]
  /\ created = [e \in EventIds |-> 0]
  /\ aborts = 0

\* ------------------------------------------------------ pure operators
Min(a, b) == IF a < b THEN a ELSE b

RECURSIVE Pow2(_)
Pow2(n) == IF n <= 0 THEN 1 ELSE 2 * Pow2(n - 1)

\* line 67: min(60 * (2 ** (processing_attempts - 2)), 3600)
Backoff(attempts) == Min(BackoffBase * Pow2(attempts - 2), BackoffCap)

\* Python truth value of an optional string: None and "" are false.
Falsy(x) == x \in {NULL, ""}

\* Mutant of line 30: only the id is tested.
ValidEvent_Mut(ev) == ~Falsy(ev.id)

\* line 30: if not event_id or not event_type
ValidEvent(ev) == ~Falsy(ev.id) /\ ~Falsy(ev.type)

\* models.py: stripe_event_id is unique=True; flush() raises IntegrityError
\* when a committed row already carries the id.
UniqueViolation(e) == Len(log[e]) > 0

\* The INSERT waits while another open transaction holds an uncommitted
\* row with the same key.
InsertBlocked(w, e) ==
  \E j \in Workers \ {w} : sess[j].obj = "new" /\ sess[j].ev.id = e

\* Mutant of line 52: the processed flag of the existing row is ignored.
AlreadyProcessed_Mut(row) == FALSE

\* line 52: if existing_event.processed
AlreadyProcessed(row) == row.processed

\* ORM UPDATE: only the modified attributes are written, as absolute values.
Merge(old, img, dirty) ==
  [a \in DOMAIN old |-> IF a \in dirty THEN img[a] ELSE old[a]]

\* Mutant of commit(): the UPDATE also stores the type and the payload of
\* the delivery that is being processed.
CommitLog_Mut(s) ==
  IF s.obj = "new"
    THEN [log EXCEPT ![s.ev.id] = Append(@, s.img)]
    ELSE IF s.obj = "persistent" /\ s.dirty # {}
      THEN [log EXCEPT ![s.ev.id][s.idx] =
              [Merge(@, s.img, s.dirty) EXCEPT !.event_type = s.ev.type,
                                               !.event_data = s.ev]]
      ELSE log

\* Session.commit() as seen by stripe_event_log: the flushed INSERT of a
\* new object becomes durable together with its later changes; a persistent
\* object gets an UPDATE of its modified attributes.
CommitLog(s) ==
  IF s.obj = "new"
    THEN [log EXCEPT ![s.ev.id] = Append(@, s.img)]
    ELSE IF s.obj = "persistent" /\ s.dirty # {}
      THEN [log EXCEPT ![s.ev.id][s.idx] = Merge(@, s.img, s.dirty)]
      ELSE log

\* The session's objects after commit(): persistent, clean, expired.
Committed(s) ==
  [s EXCEPT !.obj = IF s.obj = "new" THEN "persistent" ELSE s.obj,
            !.idx = IF s.obj = "new" THEN Len(log[s.ev.id]) + 1 ELSE s.idx,
            !.dirty = {},
            !.expired = (s.obj \in {"new", "persistent"}),
            !.wrote = s.wrote \/ s.obj = "new"
                      \/ (s.obj = "persistent" /\ s.dirty # {})]

\* routers/stripe.py line 55: "Invalid" in message.  Of the messages
\* process_event returns only the one of line 31 contains the word.
ContainsInvalid(msg) == msg = "Invalid event data - missing id or type"

\* routers/stripe.py line 55-57: the HTTPException built for a failure.
RaisedStatus(msg) == IF ContainsInvalid(msg) THEN 400 ELSE 500

\* routers/stripe.py lines 62-64: the HTTPException of line 57 is raised
\* inside the try block; it is an Exception, so "except Exception" catches
\* it and raises HTTPException(500) in its place.
CaughtStatus(raised) == 500

\* routers/stripe.py lines 50-64: the status the webhook answers with.
WebhookStatus(ok, msg) ==
  IF ok THEN 200 ELSE CaughtStatus(RaisedStatus(msg))

\* process_event returns: the webhook answers and the session is closed by
\* get_db.
Finish(s, ok, msg) ==
  [IdleSession EXCEPT !.pc = "done", !.ev = s.ev, !.ok = ok, !.msg = msg,
                      !.http = WebhookStatus(ok, msg),
                      !.err = s.err, !.deadAttempt = s.deadAttempt,
                      !.base = s.base, !.first = s.first,
                      !.startedProcessed = s.startedProcessed,
                      !.handled = s.handled, !.wrote = s.wrote]

\* The value event_log.processing_attempts evaluates to: a persistent
\* expired object is reloaded from the database, a transient one keeps
\* its in-memory value.
ReadAttempts(s) ==
  IF s.obj = "persistent" THEN log[s.ev.id][s.idx].attempts ELSE s.img.attempts

\* --------------------------------------------------------------- actions
\* lines 27-31: a delivery starts an invocation.
StartInvocation(w, ev) ==
  /\ sess[w].pc \in {"idle", "done"}
  /\ deliveries' = deliveries + 1
  /\ sess' = [sess EXCEPT ![w] =
       IF ~ValidEvent(ev)
         THEN Finish([IdleSession EXCEPT !.ev = ev], FALSE,
                     "Invalid event data - missing id or type")
         ELSE [IdleSession EXCEPT
                 !.pc = "insert", !.ev = ev,
                 !.first = /\ created[ev.id] = 0
                           /\ \A j \in Workers \ {w} :
                                 \/ sess[j].pc \in {"idle", "done"}
                                 \/ sess[j].ev.id # ev.id,
                 !.startedProcessed =
                    \E k \in 1..Len(log[ev.id]) : log[ev.id][k].processed]]
  /\ UNCHANGED <<log, balance, txSum, hasRetryColumns, grants,
                 handlerCalls, attemptsMade, created, aborts, status>>

Deliver(w, ev) ==
  /\ deliveries < MaxDeliveries
  /\ StartInvocation(w, ev)

\* Deliveries one after the other: the next one starts when the previous
\* invocation has returned or was aborted.
DeliverSeq(ev) ==
  /\ deliveries < MaxSeqDeliveries
  /\ \A j \in Workers : sess[j].pc \in {"idle", "done"}
  /\ StartInvocation(1, ev)

\* Sequential deliveries of any input, malformed ones included.
DeliverAny(ev) ==
  /\ deliveries < MaxAnyDeliveries
  /\ \A j \in Workers : sess[j].pc \in {"idle", "done"}
  /\ StartInvocation(1, ev)

\* lines 35-47: db.add(event_log); db.flush(); on IntegrityError rollback.
Insert(w) ==
  LET s == sess[w]
      e == s.ev.id
  IN /\ s.pc = "insert"
     /\ ~InsertBlocked(w, e)
     /\ sess' = [sess EXCEPT ![w] =
          IF UniqueViolation(e)
            THEN [s EXCEPT !.pc = "query"]
            ELSE [s EXCEPT !.pc = "handler", !.obj = "new",
                           !.img = NewRow(s.ev)]]
     /\ created' = [created EXCEPT ![e] =
                      IF UniqueViolation(e) THEN @ ELSE @ + 1]
     /\ UNCHANGED <<log, balance, txSum, hasRetryColumns, deliveries,
                    grants, handlerCalls, attemptsMade, aborts, status>>

\* Mutant of lines 48-57: a row whose next_retry_at is set is not retried.
Query_Mut(w) ==
  LET s == sess[w]
      row == log[s.ev.id][1]
  IN /\ s.pc = "query"
     /\ sess' = [sess EXCEPT ![w] =
          IF AlreadyProcessed(row)
            THEN Finish(s, TRUE, "Event already processed")
          ELSE IF row.next_retry_at # NoTime
            THEN Finish(s, FALSE, "Retry not due")
            ELSE [s EXCEPT !.pc = "handler", !.obj = "persistent",
                           !.idx = 1, !.img = row, !.expired = FALSE,
                           !.base = row.attempts]]
     /\ UNCHANGED <<log, balance, txSum, hasRetryColumns, deliveries,
                    grants, handlerCalls, attemptsMade, created, aborts,
                    status>>

\* lines 48-57: load the existing row, return if it is processed.
Query(w) ==
  LET s == sess[w]
      row == log[s.ev.id][1]
  IN /\ s.pc = "query"
     /\ sess' = [sess EXCEPT ![w] =
          IF AlreadyProcessed(row)
            THEN Finish(s, TRUE, "Event already processed")
            ELSE [s EXCEPT !.pc = "handler", !.obj = "persistent",
                           !.idx = 1, !.img = row, !.expired = FALSE,
                           !.base = row.attempts]]
     /\ UNCHANGED <<log, balance, txSum, hasRetryColumns, deliveries,
                    grants, handlerCalls, attemptsMade, created, aborts,
                    status>>

\* Mutant of line 63: the attempt count is not incremented.
BeginAttempt_Mut(s) == s

\* lines 63-72: attempt count and backoff, on the in-memory object.
BeginAttempt(s) ==
  LET n == s.img.attempts + 1
      retry == n > 1 /\ hasRetryColumns
  IN [s EXCEPT !.img = [s.img EXCEPT
                          !.attempts = n,
                          !.next_retry_at = IF retry THEN Backoff(n) ELSE @],
               !.dirty = s.dirty \cup {"attempts"}
                         \cup (IF retry THEN {"next_retry_at"} ELSE {})]

\* Mutant of lines 75-86: every type is dispatched to a handler.
HasHandler_Mut(type) == TRUE

\* lines 75-86: which types have a handler.
HasHandler(type) ==
  type \in {CHECKOUT, PAYMENT_OK, PAYMENT_FAILED, INVOICE_PAID}

\* lines 122-135 (_handle_checkout_completed up to the user lookup),
\* lines 149-152 (_handle_payment_succeeded), 159-162
\* (_handle_payment_failed) and 169-173 (_handle_subscription_payment):
\* the error the handler raises before it reaches the ledger, or NULL.
\* data.object absent: the handler is called with None, and only
\* _handle_subscription_payment tests for it.
HandlerError(ev) ==
  IF ev.type \in {PAYMENT_OK, PAYMENT_FAILED}
    THEN IF ev.has_object THEN NULL ELSE NoneTypeError
  ELSE IF ev.type # CHECKOUT THEN NULL
  ELSE IF ~ev.has_object THEN NoneTypeError
  ELSE IF ev.user_id = NULL \/ ev.credits = 0 THEN MissingFields
  ELSE IF ev.user_id \notin Users THEN UserNotFound
  ELSE NULL

\* Mutant of lines 75-82: any object that names a user is sent to the ledger.
CallsLedger_Mut(ev) == ev.user_id \in Users

\* lines 75-76 and 137-145: only the checkout handler calls add_credits.
CallsLedger(ev) == ev.type = CHECKOUT

\* lines 60-86 and 122-135: begin the attempt, dispatch on the type, run the
\* handler up to its first statement that needs the ledger.
Handler(w) ==
  LET s == sess[w]
      e == s.ev.id
      b == BeginAttempt(s)
      h == [b EXCEPT !.handled = HasHandler(s.ev.type)]
  IN /\ s.pc = "handler"
     /\ attemptsMade' = [attemptsMade EXCEPT ![e] = @ + 1]
     /\ handlerCalls' = [handlerCalls EXCEPT ![e] =
                           IF HasHandler(s.ev.type) THEN @ + 1 ELSE @]
     /\ sess' = [sess EXCEPT ![w] =
          IF HandlerError(s.ev) # NULL
            THEN [h EXCEPT !.pc = "fail", !.err = HandlerError(s.ev)]
          ELSE IF CallsLedger(s.ev)
            THEN [h EXCEPT !.pc = "ledger", !.user = balance[s.ev.user_id]]
          ELSE [h EXCEPT !.pc = "mark"]]
     /\ UNCHANGED <<log, balance, txSum, hasRetryColumns, deliveries,
                    grants, created, aborts, status>>

\* credits.py lines 11-18: add_credits writes the balance it computed from
\* the loaded user, adds the CreditTransaction and COMMITS the session:
\* the event row (with its attempt count) becomes durable here too.
LedgerCommit(w) ==
  LET s == sess[w]
      u == s.ev.user_id
  IN /\ s.pc = "ledger"
     /\ log' = CommitLog(s)
     /\ balance' = [balance EXCEPT ![u] = s.user + s.ev.credits]
     /\ txSum' = [txSum EXCEPT ![u] = @ + s.ev.credits]
     /\ grants' = [grants EXCEPT ![s.ev.id] = @ + 1]
     /\ sess' = [sess EXCEPT ![w] = [Committed(s) EXCEPT !.pc = "mark"]]
     /\ UNCHANGED <<hasRetryColumns, deliveries, handlerCalls, attemptsMade,
                    created, aborts, status>>

\* The ledger call raises (storage error in add_credits): nothing of the
\* session's transaction is committed.
LedgerFault(w) ==
  LET s == sess[w]
  IN /\ s.pc = "ledger"
     /\ sess' = [sess EXCEPT ![w] = [s EXCEPT !.pc = "fail", !.err = LedgerError]]
     /\ UNCHANGED <<log, balance, txSum, hasRetryColumns, deliveries,
                    grants, handlerCalls, attemptsMade, created, aborts,
                    status>>

\* lines 88-90: the attributes mark_success modifies.  An attribute of an
\* expired object counts as modified whatever it is set to.
MarkDirty(s) ==
  IF s.expired THEN {"processed", "processed_at", "error_message"}
  ELSE {"processed", "processed_at"}
       \cup (IF s.img.error_message # NULL THEN {"error_message"} ELSE {})

ProcessedNow == 1

\* Mutant of lines 88-90: success also clears dead_letter.
MarkSuccess_Mut(s) ==
  [s EXCEPT !.img = [s.img EXCEPT !.processed = TRUE,
                                  !.processed_at = ProcessedNow,
                                  !.error_message = NULL,
                                  !.dead_letter = FALSE],
            !.dirty = s.dirty \cup MarkDirty(s) \cup {"dead_letter"}]

\* lines 88-90: processed, processed_at and error_message on the object.
MarkSuccess(s) ==
  [s EXCEPT !.img = [s.img EXCEPT !.processed = TRUE,
                                  !.processed_at = ProcessedNow,
                                  !.error_message = NULL],
            !.dirty = s.dirty \cup MarkDirty(s)]

\* lines 88-95: mark processed, commit at the end of the with block.
Mark(w) ==
  LET s == sess[w]
      m == MarkSuccess(s)
  IN /\ s.pc = "mark"
     /\ log' = CommitLog(m)
     /\ sess' = [sess EXCEPT ![w] =
                   Finish(Committed(m), TRUE, "Event processed successfully")]
     /\ UNCHANGED <<balance, txSum, hasRetryColumns, deliveries,
                    grants, handlerCalls, attemptsMade, created, aborts,
                    status>>

\* lines 97-108: rollback, then error_message and dead_letter on the object.
Fail(w) ==
  LET s == sess[w]
      r == [s EXCEPT !.obj = IF s.obj = "new" THEN "transient" ELSE s.obj,
                     !.img = IF s.obj = "persistent"
                               THEN log[s.ev.id][s.idx] ELSE s.img,
                     !.dirty = {}]
      dead == ReadAttempts(r) >= RetryCeiling
  IN /\ s.pc = "fail"
     /\ sess' = [sess EXCEPT ![w] =
          [r EXCEPT !.pc = "fail_commit",
                    !.img = [r.img EXCEPT
                       !.error_message = s.err,
                       !.dead_letter = IF dead /\ hasRetryColumns THEN TRUE ELSE @],
                    !.dirty = {"error_message"}
                       \cup (IF dead /\ hasRetryColumns THEN {"dead_letter"} ELSE {})]]
     /\ UNCHANGED <<log, balance, txSum, hasRetryColumns, deliveries,
                    grants, handlerCalls, attemptsMade, created, aborts,
                    status>>

\* line 110: self.db.commit() of the error information.
FailCommit(w) ==
  LET s == sess[w]
  IN /\ s.pc = "fail_commit"
     /\ log' = CommitLog(s)
     /\ sess' = [sess EXCEPT ![w] = [Committed(s) EXCEPT !.pc = "fail_return"]]
     /\ UNCHANGED <<balance, txSum, hasRetryColumns, deliveries,
                    grants, handlerCalls, attemptsMade, created, aborts,
                    status>>

\* lines 117-120: the returned message.
FailReturn(w) ==
  LET s == sess[w]
      dead == ReadAttempts(s) >= RetryCeiling
  IN /\ s.pc = "fail_return"
     /\ sess' = [sess EXCEPT ![w] =
          Finish([s EXCEPT !.deadAttempt = dead], FALSE,
                 IF dead THEN "Event processing failed after 5 attempts"
                         ELSE "Event processing failed")]
     /\ UNCHANGED <<log, balance, txSum, hasRetryColumns, deliveries,
                    grants, handlerCalls, attemptsMade, created, aborts,
                    status>>

\* The invocation is cut short (request timeout, worker crash): the
\* session is closed and whatever it had not committed is rolled back.
Abort(w) ==
  /\ sess[w].pc \notin {"idle", "done"}
  /\ sess' = [sess EXCEPT ![w] = IdleSession]
  /\ aborts' = aborts + 1
  /\ UNCHANGED <<log, balance, txSum, hasRetryColumns, deliveries,
                 grants, handlerCalls, attemptsMade, created, status>>

\* routers/stripe.py lines 66-88: get_event_status reads the committed row
\* of the id in a session of its own and writes nothing.
GetEventStatus(e) ==
  /\ status' = IF Len(log[e]) = 0 THEN NotFound(e)
                                   ELSE StatusBody(e, log[e][1])
  /\ UNCHANGED <<log, balance, txSum, sess, hasRetryColumns, deliveries,
                 grants, handlerCalls, attemptsMade, created, aborts>>

Step(w) ==
  \/ Insert(w)
  \/ Query(w)
  \/ Handler(w)
  \/ LedgerCommit(w)
  \/ LedgerFault(w)
  \/ Mark(w)
  \/ Fail(w)
  \/ FailCommit(w)
  \/ FailReturn(w)
  \/ Abort(w)

Next ==
  \/ \E w \in Workers, ev \in Events : Deliver(w, ev)
  \/ \E w \in Workers : Step(w)

Spec == Init /\ [][Next]_vars

NextSeq ==
  \/ \E ev \in Events : DeliverSeq(ev)
  \/ \E w \in Workers : Step(w)

SpecSeq == Init /\ [][NextSeq]_vars

\* Overlapping deliveries and redeliveries of the purchases of one user.
DeliverTopUp(w, ev) ==
  /\ deliveries < MaxTopUpDeliveries
  /\ StartInvocation(w, ev)

NextTopUp ==
  \/ \E w \in Workers, ev \in TopUpEvents : DeliverTopUp(w, ev)
  \/ \E w \in Workers : Step(w)

SpecTopUp == Init /\ [][NextTopUp]_vars

NextAny ==
  \/ \E ev \in AllEvents : DeliverAny(ev)
  \/ \E w \in Workers : Step(w)
  \/ \E e \in StatusIds : GetEventStatus(e)

SpecAny == Init /\ [][NextAny]_vars

TypeOK ==
  /\ \A e \in EventIds : Len(log[e]) <= 2
  /\ deliveries \in 0..MaxSeqDeliveries

\* ---------------------------------------------------------------- claims
Rows(e) == {log[e][k] : k \in 1..Len(log[e])}

Quiescent == \A w \in Workers : sess[w].pc \in {"idle", "done"}

Returned(w) == sess[w].pc = "done"

\* C1: for every event id, at most one credit grant made on behalf of that
\* id ever becomes durable in the ledger, whatever the deliveries do.
C1_AtMostOneGrant == \A e \in EventIds : grants[e] <= 1

\* C2: when the same new checkout event (evt_1, 100 credits for U1) is
\* delivered by two overlapping or successive invocations and nothing
\* raises, exactly one grant of 100 reaches U1 and both return success.
C2_TwoDeliveriesOneGrant ==
  ( /\ deliveries = 2
    /\ aborts = 0
    /\ \A w \in {1, 2} : /\ Returned(w)
                         /\ sess[w].ev.id = "evt_1"
                         /\ sess[w].err = NULL )
  => /\ grants["evt_1"] = 1
     /\ balance["U1"] = 100
     /\ \A w \in {1, 2} : sess[w].ok

\* C3: a credit grant made on behalf of event e is durable only if the row
\* of e is durably processed=true.
C3_GrantOnlyIfProcessed ==
  \A e \in EventIds :
    grants[e] > 0 => \E r \in Rows(e) : r.processed

\* C4: an invocation delivered when the row of its id is already
\* processed=true never reaches the handler; it returns
\* (true, "Event already processed"), runs no handler and writes nothing.
C4_ProcessedIsTerminal ==
  \A w \in Workers :
    sess[w].startedProcessed =>
      /\ sess[w].pc \in {"insert", "query", "done"}
      /\ ~sess[w].handled
      /\ ~sess[w].wrote
      /\ sess[w].obj = "none"
      /\ Returned(w) => /\ sess[w].ok
                        /\ sess[w].msg = "Event already processed"

\* C4 witness: a duplicate of a processed event has returned.
C4_Witness ==
  \E w \in Workers :
    /\ sess[w].startedProcessed
    /\ Returned(w)
    /\ sess[w].msg = "Event already processed"
    /\ attemptsMade[sess[w].ev.id] = 1
    /\ \A r \in Rows(sess[w].ev.id) : r.attempts = 1

\* C5: of the invocations that carry the same unseen id, exactly one
\* creates the row (no invocation being cut short), and the store never
\* holds two rows with the same provider event id.
C5_OneCreatorOneRow ==
  \A e \in EventIds :
    /\ Len(log[e]) <= 1
    /\ aborts = 0 => created[e] <= 1

\* C6: after a call whose handler raised has returned, the row of the id is
\* stored with processed=false, attempt_count = attempts made so far and
\* error_message = the text of the raised error (sequential deliveries,
\* none cut short).
C6_FailureIsRecorded ==
  \A w \in Workers :
    (Returned(w) /\ ~sess[w].ok /\ aborts = 0) =>
      \E r \in Rows(sess[w].ev.id) :
        /\ ~r.processed
        /\ r.attempts = attemptsMade[sess[w].ev.id]
        /\ r.error_message = sess[w].err

\* C7: after N sequential processing attempts of an id (none cut short) the
\* stored attempt_count equals N.
C7_AttemptCountIsN ==
  \A e \in EventIds :
    (Quiescent /\ aborts = 0 /\ attemptsMade[e] > 0) =>
      \E r \in Rows(e) : r.attempts = attemptsMade[e]

\* C8: for an event whose handler fails on every attempt, dead_letter is
\* true after the failure of attempt N exactly when N >= 5 (sequential
\* deliveries, none cut short).
C8_DeadLetterAtCeiling ==
  \A ev \in Events :
    (Quiescent /\ aborts = 0 /\ HandlerError(ev) # NULL
               /\ attemptsMade[ev.id] > 0) =>
      ( attemptsMade[ev.id] >= RetryCeiling
          <=> \E r \in Rows(ev.id) : r.dead_letter )

\* C9: the handler is invoked at most 5 times (the retry ceiling) for an
\* event id that never succeeds (no invocation being cut short).
C9_HandlerCallsBounded ==
  \A e \in EventIds :
    (aborts = 0 /\ \A r \in Rows(e) : ~r.processed)
      => handlerCalls[e] <= RetryCeiling

\* C10: every stored row with processed=true has error_message null and
\* processed_at set.
C10_ProcessedRowIsClean ==
  \A e \in EventIds : \A r \in Rows(e) :
    r.processed => r.error_message = NULL /\ r.processed_at # NoTime

C12_NoLostIncrement ==
  \A w1 \in Workers : \A w2 \in Workers \ {w1} :
    ( /\ Returned(w1) /\ Returned(w2)
      /\ sess[w1].ev.id = sess[w2].ev.id
      /\ sess[w1].msg = "Event processed successfully"
      /\ sess[w2].msg = "Event processed successfully"
      /\ sess[w1].base >= 1
      /\ sess[w1].base = sess[w2].base )
    => \A r \in Rows(sess[w1].ev.id) : r.attempts >= sess[w1].base + 2

\* C13: when the attempts 1..k-1 of an event failed and attempt k (k >= 2)
\* succeeded (sequential deliveries, none cut short), the row has
\* processed=true, attempt_count=k, processed_at set, error_message null.
C13_SuccessAfterFailures ==
  \A e \in EventIds :
    ( /\ Quiescent /\ aborts = 0
      /\ attemptsMade[e] >= 2
      /\ \E r \in Rows(e) : r.processed )
    => \A r \in Rows(e) : /\ r.attempts = attemptsMade[e]
                          /\ r.processed_at # NoTime
                          /\ r.error_message = NULL

\* C14: a failing call returns the "failed after 5 attempts" message exactly
\* when the attempt that just failed is the 5th or a later one (sequential
\* deliveries, none cut short).
C14_FailureMessage ==
  \A w \in Workers :
    (Returned(w) /\ ~sess[w].ok /\ sess[w].err # NULL /\ aborts = 0) =>
      ( sess[w].msg = "Event processing failed after 5 attempts"
          <=> attemptsMade[sess[w].ev.id] >= RetryCeiling )

\* C15: every exception of a handler ends as a returned (false, message)
\* and as failure state stored on the row of the event.
C15_ExceptionBecomesStoredFailure ==
  \A w \in Workers :
    (Returned(w) /\ sess[w].err # NULL) =>
      /\ ~sess[w].ok
      /\ \E r \in Rows(sess[w].ev.id) : r.error_message = sess[w].err

\* An event without id or without type (absent, null or empty).
Malformed(ev) == ev.id \in {NULL, ""} \/ ev.type \in {NULL, ""}

\* C16: the first delivery of a well-formed event whose handler does not
\* raise returns (true, "Event processed successfully") and leaves exactly
\* one row for the id, processed=true, attempt_count=1, error_message null,
\* processed_at set; for a checkout event the ledger call was made once.
C16_FirstDeliverySucceeds ==
  \A w \in Workers :
    LET e == sess[w].ev.id
    IN (Returned(w) /\ sess[w].first /\ ~Malformed(sess[w].ev)
                    /\ sess[w].err = NULL) =>
         /\ sess[w].ok
         /\ sess[w].msg = "Event processed successfully"
         /\ Len(log[e]) = 1
         /\ log[e][1].processed
         /\ log[e][1].attempts = 1
         /\ log[e][1].error_message = NULL
         /\ log[e][1].processed_at # NoTime
         /\ sess[w].ev.type = CHECKOUT =>
              grants[e] = 1 /\ handlerCalls[e] = 1

\* C16 witness: a first delivery of the valid checkout event has returned.
C16_Witness ==
  \E w \in Workers :
    /\ Returned(w) /\ sess[w].first /\ sess[w].ok
    /\ sess[w].ev.id = "evt_1"
    /\ balance["U1"] = 100

\* C17: a delivery of an event without id or type returns
\* (false, "Invalid event data - missing id or type") at once and changes
\* neither the event store nor the ledger, counts no attempt and calls no
\* handler.
C17_MalformedIsRejected ==
  [][ \A w \in Workers :
        (deliveries' = deliveries + 1 /\ sess'[w] # sess[w]
           /\ Malformed(sess'[w].ev)) =>
          /\ sess'[w].pc = "done"
          /\ ~sess'[w].ok
          /\ sess'[w].msg = "Invalid event data - missing id or type"
          /\ ~sess'[w].handled /\ ~sess'[w].wrote
          /\ UNCHANGED <<log, balance, txSum, grants, handlerCalls,
                         attemptsMade, created>> ]_vars

\* C17 witness: a malformed event was rejected while a row is stored.
C17_Witness ==
  \E w \in Workers :
    /\ Returned(w) /\ Malformed(sess[w].ev) /\ ~sess[w].ok
    /\ \E e \in EventIds : Len(log[e]) = 1

\* The event types process_event dispatches to a handler.
RegisteredTypes == {CHECKOUT, PAYMENT_OK, PAYMENT_FAILED, INVOICE_PAID}

\* C18: an event of a type without handler is marked processed=true with
\* attempt_count=1 and error_message null on its first delivery, no handler
\* and no ledger call is made, process_event returns success, and the
\* event is not attempted again.
C18_UnknownTypeAcknowledged ==
  \A w \in Workers :
    LET e == sess[w].ev.id
    IN (Returned(w) /\ ~Malformed(sess[w].ev)
                    /\ sess[w].ev.type \notin RegisteredTypes) =>
         /\ sess[w].ok
         /\ ~sess[w].handled
         /\ handlerCalls[e] = 0 /\ grants[e] = 0
         /\ Len(log[e]) = 1
         /\ log[e][1].processed
         /\ log[e][1].attempts = 1
         /\ log[e][1].error_message = NULL
         /\ sess[w].first => sess[w].msg = "Event processed successfully"
         /\ ~sess[w].first /\ aborts = 0 =>
              sess[w].msg = "Event already processed"
         /\ aborts = 0 => attemptsMade[e] = 1

\* C18 witness: an event of an unregistered type was delivered twice.
C18_Witness ==
  \E w \in Workers :
    /\ Returned(w) /\ sess[w].ev.type = "customer.created"
    /\ sess[w].msg = "Event already processed"
    /\ attemptsMade[sess[w].ev.id] = 1

\* C19: the checkout handler fails, without any ledger mutation, when the
\* user id is missing, the credit amount is missing, zero or negative, or
\* the user does not exist.
C19_CheckoutValidation ==
  \A w \in Workers :
    LET ev == sess[w].ev
    IN ( /\ Returned(w) /\ ~Malformed(ev)
         /\ ev.type = CHECKOUT /\ ev.has_object
         /\ (ev.user_id = NULL \/ ev.credits <= 0 \/ ev.user_id \notin Users) )
       => /\ ~sess[w].ok
          /\ grants[ev.id] = 0
          /\ \A u \in Users : balance[u] >= 0

\* C20: on attempt k of an event (sequential deliveries, none cut short,
\* next_retry_at mapped) next_retry_at is unset when k = 1 and is the
\* backoff min(60 * 2^(k-2), 3600) when k >= 2.
C20_BackoffOfAttempt ==
  \A w \in Workers :
    LET k == attemptsMade[sess[w].ev.id]
    IN (sess[w].pc \in {"ledger", "mark", "fail"} /\ aborts = 0
          /\ hasRetryColumns) =>
         sess[w].img.next_retry_at
           = IF k >= 2 THEN Min(60 * Pow2(k - 2), 3600) ELSE NoTime

\* The idempotency key _handle_checkout_completed passes to add_credits.
IdempotencyKey(ev) == <<"checkout", ev.session>>

\* C21: the credit grant is idempotent in its idempotency key: two event
\* ids whose checkout events carry the same key never both get a grant into
\* the ledger (each id granted at most once, no invocation cut short).
C21_GrantOncePerKey ==
  \A e1 \in AllEvents : \A e2 \in AllEvents :
    ( /\ aborts = 0
      /\ e1.type = CHECKOUT /\ e2.type = CHECKOUT
      /\ ~Falsy(e1.id) /\ ~Falsy(e2.id) /\ e1.id # e2.id
      /\ IdempotencyKey(e1) = IdempotencyKey(e2)
      /\ \A e \in EventIds : grants[e] <= 1 )
    => ~(grants[e1.id] >= 1 /\ grants[e2.id] >= 1)

\* C22: every step of an invocation that processes a payment-succeeded or
\* payment-failed event leaves all balances, the credit transactions and the
\* rows of other ids unchanged; when it returns success its own row is
\* marked processed.
C22_PaymentEventsLeaveLedger ==
  [][ \A w \in Workers :
        ( /\ sess[w].pc \notin {"idle", "done"}
          /\ sess[w].ev.type \in {PAYMENT_OK, PAYMENT_FAILED}
          /\ sess'[w] # sess[w] ) =>
          /\ UNCHANGED <<balance, txSum, grants>>
          /\ \A e \in EventIds \ {sess[w].ev.id} : log'[e] = log[e]
          /\ (sess'[w].pc = "done" /\ sess'[w].ok) =>
               /\ Len(log'[sess[w].ev.id]) = 1
               /\ log'[sess[w].ev.id][1].processed ]_vars

\* C22 witness: the failed-payment event evt_11, whose object names U1 and
\* an amount, was processed after U1 had been granted the credits of evt_1.
C22_Witness ==
  \E w \in Workers :
    /\ Returned(w) /\ sess[w].ok
    /\ sess[w].ev.id = "evt_11"
    /\ sess[w].msg = "Event processed successfully"
    /\ balance["U1"] = 100 /\ txSum["U1"] = 100

\* C23: a status lookup answers 404 when no row with the id is stored and
\* otherwise 200 with the stored row's event_type, processed, attempt
\* count, error_message, processed_at, created_at and next_retry_at; it
\* changes neither the event store nor the ledger.
C23_StatusLookup ==
  [][ status' # status =>
        LET e == status'.event_id
        IN /\ UNCHANGED <<log, balance, txSum, sess>>
           /\ Len(log[e]) = 0 => status'.code = 404
           /\ Len(log[e]) > 0 =>
                /\ status'.code = 200
                /\ status'.event_type = log[e][1].event_type
                /\ status'.processed = log[e][1].processed
                /\ status'.processing_attempts = log[e][1].attempts
                /\ status'.error_message = log[e][1].error_message
                /\ status'.processed_at = log[e][1].processed_at
                /\ status'.created_at = log[e][1].created_at
                /\ status'.next_retry_at = log[e][1].next_retry_at ]_vars

\* C23 witness: the lookup returned a row in its second attempt, with its
\* retry time.
C23_Witness ==
  /\ status.code = 200
  /\ status.processing_attempts = 2
  /\ status.next_retry_at = 60
  /\ ~status.processed

\* C24: after a retry attempt k >= 2 (an attempt on a stored row) has
\* failed and returned, the stored row carries what begin_attempt wrote for
\* it: an attempt count of at least k and a next_retry_at of at least the
\* backoff of attempt k (next_retry_at mapped, no invocation cut short).
C24_BeginAttemptSurvivesFailure ==
  \A w \in Workers :
    ( /\ Returned(w) /\ ~sess[w].ok /\ sess[w].err # NULL
      /\ sess[w].base >= 1
      /\ hasRetryColumns /\ aborts = 0 )
    => \A r \in Rows(sess[w].ev.id) :
         /\ r.attempts >= sess[w].base + 1
         /\ r.next_retry_at >= Backoff(sess[w].base + 1)

\* C25: an event id that keeps being redelivered has a row in a terminal
\* state, processed=true or dead_letter=true, once 5 attempts have been made
\* for it and no invocation is running (sequential deliveries, none cut
\* short, dead_letter mapped).
C25_TerminalAfterCeiling ==
  \A e \in EventIds :
    ( /\ Quiescent /\ aborts = 0 /\ hasRetryColumns
      /\ attemptsMade[e] >= RetryCeiling )
    => \E r \in Rows(e) : r.processed \/ r.dead_letter

\* C26: process_event does not gate on next_retry_at.  The clock of the
\* model stands still, so every redelivery arrives before a stored retry
\* time: an invocation that finds an unprocessed row with next_retry_at set
\* goes on to the attempt, and the attempt increments the attempt count and
\* runs the handler of a registered type.
C26_NoRetryGate ==
  [][ \A w \in Workers :
        LET s == sess[w]
            t == sess'[w]
            e == s.ev.id
        IN /\ ( /\ s.pc = "query" /\ t # s /\ t.pc # "idle"
                /\ ~log[e][1].processed
                /\ log[e][1].next_retry_at # NoTime )
             => t.pc = "handler" /\ t.img = log[e][1]
           /\ ( /\ s.pc = "handler" /\ t # s /\ t.pc # "idle"
                /\ s.obj = "persistent"
                /\ s.img.next_retry_at # NoTime )
             => /\ t.img.attempts = s.img.attempts + 1
                /\ attemptsMade'[e] = attemptsMade[e] + 1
                /\ s.ev.type \in RegisteredTypes =>
                     t.handled /\ handlerCalls'[e] = handlerCalls[e] + 1 ]_vars

\* C26 witness: an invocation found the row in its second attempt with a
\* retry time of 60 s and is in its third attempt with the handler run.
C26_Witness ==
  \E w \in Workers :
    /\ sess[w].pc \in {"ledger", "mark"}
    /\ sess[w].base = 2
    /\ sess[w].handled
    /\ sess[w].img.attempts = 3
    /\ \E r \in Rows(sess[w].ev.id) : r.next_retry_at >= Backoff(2)

\* C27: the webhook answers 200 when process_event succeeds, 400 when it
\* fails with a message containing "Invalid" (an event without id or type)
\* and 500 for every other failure.
C27_WebhookStatus ==
  \A w \in Workers :
    Returned(w) =>
      sess[w].http = IF sess[w].ok THEN 200
                     ELSE IF Malformed(sess[w].ev) THEN 400
                     ELSE 500

\* C28: each user's balance equals the sum of the amounts of the user's
\* credit transactions, also when grants of different event ids overlap
\* (every id granted at most once, no invocation cut short).
C28_BalanceMatchesLedger ==
  (aborts = 0 /\ \A e \in EventIds : grants[e] <= 1)
    => \A u \in Users : balance[u] = txSum[u]

C30_RowIdentityIsFixed ==
  [][ /\ \A e \in EventIds : \A k \in 1..Len(log[e]) :
           /\ Len(log'[e]) >= k
           /\ log'[e][k].event_type = log[e][k].event_type
           /\ log'[e][k].event_data = log[e][k].event_data
           /\ log[e][k].event_data.id = e
      /\ \A w \in Workers :
           sess'[w] # sess[w] =>
             \A e \in EventIds \ {sess[w].ev.id} : log'[e] = log[e] ]_vars

\* C30 witness: the row created for the checkout event evt_1 was processed
\* by a delivery that reused the id with another type and payload.
C30_Witness ==
  \E w \in Workers :
    /\ Returned(w)
    /\ sess[w].ev.id = "evt_1" /\ sess[w].ev.type = PAYMENT_OK
    /\ sess[w].msg = "Event processed successfully"
    /\ Len(log["evt_1"]) = 1
    /\ log["evt_1"][1].event_type = CHECKOUT
    /\ log["evt_1"][1].event_data.session = "cs_1"
    /\ log["evt_1"][1].attempts = 2

====
